---- MODULE Spec2Model ----
(***************************************************************************)
(* Model of the lesson-template Markdown validator                         *)
(* (tools/validate_markdown_template.py, tools/validation_helpers.py).     *)
(*                                                                         *)
(* A document is the sequence of its top-level block nodes, as the parser  *)
(* delivers it.  A node is a record [t, s, c, d]: type tag, strings (the   *)
(* raw text lines), children, and the destination of a link.  Text is a    *)
(* sequence of tokens, so that splitting a line at ":", matching a link    *)
(* destination against the filename pattern and stripping a heading's      *)
(* "{.class}" suffix are computed and not assumed.                         *)
(*                                                                         *)
(* Every check returns an outcome [res, exc, log, checks]: the value it    *)
(* returns, the exception that left it ("none" when it returned), the log  *)
(* records it emitted, and the checks that _run_tests started.             *)
(*                                                                         *)
(* The validators are written against vh.CommonMarkHelper, which the       *)
(* sources do not contain.  The queries PandocAstHelper defines under the  *)
(* same name with the same answer are modelled from it; the others         *)
(* (children, is_hr, get_block_titled, find_links, get_doc_header_title,   *)
(* strip_attrs and CommonMarkHelper's get_link_info, whose order of        *)
(* results test_markdown.py:32-34 fixes) are modelled from the design      *)
(* document.                                                               *)
(***************************************************************************)
EXTENDS Integers, Sequences, FiniteSets, TLC

VARIABLES
    doc,           \* self.ast: the top-level blocks of the document
    validator,     \* the template whose validator class was constructed
    markdown,      \* self.markdown: the raw text (an abstract text id)
    markdown_dir,  \* the sibling files: file name -> lines of its header
    folder,        \* the files of the directory under validation
    pc,            \* position of the driver
    out,           \* outcome of the last call
    prev           \* outcome of the call before the last edit

vars == <<doc, validator, markdown, markdown_dir, folder, pc, out, prev>>

(***************************************************************************)
(* Bounds                                                                  *)
(***************************************************************************)
MaxBody  == 4      \* blocks after the header section
MaxHeads == 4      \* blocks of a document of the heading-order runs
MaxLines == 3      \* lines of a header block of the header runs
MaxLinks == 2      \* links of a document of the link runs
MaxFiles == 2      \* files of a folder

(***************************************************************************)
(* Sequences                                                               *)
(***************************************************************************)
SeqsUpTo(S, n) == UNION {[1..k -> S] : k \in 0..n}

RECURSIVE SelectIn(_, _)
\* [x for x in s if x in T] with T a sequence
SelectIn(s, T) ==
    IF s = <<>> THEN <<>>
    ELSE (IF \E i \in 1..Len(T) : T[i] = Head(s) THEN <<Head(s)>> ELSE <<>>)
         \o SelectIn(Tail(s), T)

RECURSIVE SelectNotIn(_, _)
\* [x for x in s if x not in T] with T a sequence
SelectNotIn(s, T) ==
    IF s = <<>> THEN <<>>
    ELSE (IF \E i \in 1..Len(T) : T[i] = Head(s) THEN <<>> ELSE <<Head(s)>>)
         \o SelectNotIn(Tail(s), T)

Range(s) == {s[i] : i \in 1..Len(s)}

(***************************************************************************)
(* Nodes of the parsed tree                                                *)
(***************************************************************************)
Node(t, s, c, d) == [t |-> t, s |-> s, c |-> c, d |-> d]
HR               == Node("HorizontalRule", <<>>, <<>>, <<>>)
Para(lines, inl) == Node("Para", lines, inl, <<>>)
\* a heading carries its level: "1" for "# text", "2" for "## text"
HeadingL(text, level) == Node("Header", <<text>>, <<>>, <<level>>)
Heading(text)    == HeadingL(text, "2")
BlockQuote(ch)   == Node("BlockQuote", <<>>, ch, <<>>)
Link(text, dest) == Node("Link", <<text>>, <<>>, dest)

(***************************************************************************)
(* Outcomes and log records                                                *)
(***************************************************************************)
Log(sev, msg, arg) == [sev |-> sev, msg |-> msg, arg |-> arg]
Returned(r, log)   == [res |-> r, exc |-> "none", log |-> log,
                       checks |-> <<>>, seen |-> <<>>]
Raised(e, log)     == [res |-> FALSE, exc |-> e, log |-> log,
                       checks |-> <<>>, seen |-> <<>>]
Chk(name, o)       == [name |-> name, res |-> o.res, exc |-> o.exc]
NoCall             == [call |-> "none", arg |-> <<>>, res |-> FALSE,
                       exc |-> "none", log |-> <<>>, checks |-> <<>>,
                       seen |-> <<>>]
CalledWith(name, arg, o) ==
    [call |-> name, arg |-> arg, res |-> o.res, exc |-> o.exc,
     log |-> o.log, checks |-> o.checks, seen |-> o.seen]
Called(name, o)    == CalledWith(name, <<>>, o)

\* F of the value of x, where x is evaluated once
With(x, F(_)) == CHOOSE y \in {F(v) : v \in {x}} : TRUE

\* the next check of a list of checks: it is not started once one has raised
Then(acc, name, o) ==
    With(acc, LAMBDA a :
        IF a.exc # "none" THEN a
        ELSE With(o, LAMBDA r :
                 [res |-> a.res /\ r.res, exc |-> r.exc,
                  log |-> a.log \o r.log,
                  checks |-> Append(a.checks, Chk(name, r)),
                  seen |-> a.seen \o r.seen]))

(***************************************************************************)
(* Primitive validators (validation_helpers.py)                            *)
(***************************************************************************)
NumericTokens == {"30", "1.5"}

\* isinstance(text, basestring) and len(text) > 0
is_str(text) == Len(text) > 0

\* float(text) succeeds
is_numeric(text) == Len(text) = 1 /\ text[1] \in NumericTokens

ApplyValidator(f, text) ==
    IF f = "is_str" THEN is_str(text) ELSE is_numeric(text)

(***************************************************************************)
(* The tree adapter                                                        *)
(***************************************************************************)
is_hr(n)        == n.t = "HorizontalRule"
is_heading(n)   == n.t = "Header"
is_paragraph(n) == n.t = "Para"
is_block(n)     == n.t = "BlockQuote"
is_link(n)      == n.t = "Link"

\* An optional argument is <<>> (None) or <<value>>; Truthy is "if exact:"
None      == <<>>
Truthy(e) == e # <<>> /\ e[1] # 0
maxsize   == 1000

has_number_children(n, exact, minc, maxc) ==
    LET lo == IF Truthy(exact) THEN exact[1] ELSE minc
        hi == IF Truthy(exact) THEN exact[1] ELSE maxc
    IN  lo <= Len(n.c) /\ Len(n.c) <= hi

is_box(n) ==
    LET has_heading == IF has_number_children(n, None, 2, maxsize)
                       THEN is_heading(n.c[1]) ELSE FALSE
    IN  is_block(n) /\ has_heading

\* a trailing "{.class}" annotation is no part of a heading's text
IsAttr(tok) == tok \in {"{.challenge}", "{.objectives}"}

RECURSIVE strip_attrs(_)
strip_attrs(text) ==
    IF text # <<>> /\ IsAttr(text[Len(text)])
    THEN strip_attrs(SubSeq(text, 1, Len(text) - 1))
    ELSE text

RECURSIVE get_section_headings(_)
\* the headings among the direct children, in document order
get_section_headings(nodes) ==
    IF nodes = <<>> THEN <<>>
    ELSE (IF is_heading(Head(nodes)) THEN <<Head(nodes)>> ELSE <<>>)
         \o get_section_headings(Tail(nodes))

RECURSIVE get_block_titled(_, _)
\* the callout boxes among the direct children whose level-2 heading is
\* `title` (test_fail_when_prereq_section_has_incorrect_heading_level)
get_block_titled(nodes, title) ==
    IF nodes = <<>> THEN <<>>
    ELSE (IF is_box(Head(nodes))
             /\ Head(nodes).c[1].d = <<"2">>
             /\ Head(nodes).c[1].s # <<>>
             /\ strip_attrs(Head(nodes).c[1].s[1]) = title
          THEN <<Head(nodes)>> ELSE <<>>)
         \o get_block_titled(Tail(nodes), title)

RECURSIVE find_links(_)
\* every link below the nodes, depth first, in document order
find_links(nodes) ==
    IF nodes = <<>> THEN <<>>
    ELSE (IF is_link(Head(nodes)) THEN <<Head(nodes)>> ELSE <<>>)
         \o find_links(Head(nodes).c)
         \o find_links(Tail(nodes))

\* CommonMarkHelper.get_link_info: (destination, display text)
CommonMark_get_link_info(link_node) == <<link_node.d, link_node.s[1]>>

(***************************************************************************)
(* Template specifications: the class attributes of the validators         *)
(***************************************************************************)
Templates == {"index", "topic", "motivation", "reference", "instructor",
              "license", "discussion"}

HEADINGS(v) ==
    CASE v = "index"      -> << <<"Topics">>, <<"Other Resources">> >>
      [] v = "reference"  -> << <<"Glossary">> >>
      [] v = "instructor" -> << <<"Legend">>, <<"Overall">> >>
      [] OTHER            -> <<>>

WARN_ON_EXTRA_HEADINGS(v) == v # "instructor"

\* label -> the primitive validator of its content
DOC_HEADERS(v) ==
    CASE v \in {"index", "motivation"} ->
             [l \in {"layout", "title"} |-> "is_str"]
      [] v = "topic" ->
             [l \in {"layout", "title", "subtitle", "minutes"} |->
                 IF l = "minutes" THEN "is_numeric" ELSE "is_str"]
      [] v \in {"reference", "instructor", "discussion"} ->
             [l \in {"layout", "title", "subtitle"} |-> "is_str"]
      [] OTHER -> [l \in {} |-> "is_str"]

(***************************************************************************)
(* MarkdownValidator: the generic checks                                   *)
(***************************************************************************)
\* the header section is bracketed by two horizontal rules
_validate_hrs(d) ==
    IF Len(d) < 3
    THEN Returned(FALSE, <<Log("error", "no header sections", <<>>)>>)
    ELSE LET l1 == IF is_hr(d[1]) THEN <<>>
                   ELSE <<Log("error", "expected ---", <<"first">>)>>
             l3 == IF is_hr(d[3]) THEN <<>>
                   ELSE <<Log("error", "expected ---", <<"second">>)>>
         IN  Returned(is_hr(d[1]) /\ is_hr(d[3]), l1 \o l3)

\* text.split(":", 1): the position of the first ":" (0 when there is none)
FirstColon(text) ==
    IF \E i \in 1..Len(text) : text[i] = ":"
    THEN CHOOSE i \in 1..Len(text) :
            text[i] = ":" /\ \A j \in 1..(i - 1) : text[j] # ":"
    ELSE 0

\* one row of the header section
_validate_one_doc_header_row(v, text) ==
    LET k == FirstColon(text) IN
    IF k = 0 THEN Raised("ValueError", <<>>)
    ELSE LET label   == SubSeq(text, 1, k - 1)
             content == SubSeq(text, k + 1, Len(text))
             known   == Len(label) = 1 /\ label[1] \in DOMAIN DOC_HEADERS(v)
         IN  IF ~known
             THEN Returned(FALSE, <<Log("warning", "unrecognized label", label)>>)
             ELSE LET ok == ApplyValidator(DOC_HEADERS(v)[label[1]], content)
                  IN  Returned(ok, IF ok THEN <<>>
                                   ELSE <<Log("error", "bad header format", label)>>)

RECURSIVE HeaderRows(_, _)
\* [self._validate_one_doc_header_row(s) for s in header_node.strings]
HeaderRows(v, strings) ==
    IF strings = <<>> THEN Returned(TRUE, <<>>)
    ELSE LET r == _validate_one_doc_header_row(v, Head(strings)) IN
         IF r.exc # "none" THEN r
         ELSE LET rest == HeaderRows(v, Tail(strings)) IN
              IF rest.exc # "none" THEN Raised(rest.exc, r.log \o rest.log)
              ELSE Returned(r.res /\ rest.res, r.log \o rest.log)

RECURSIVE MissingLogs(_)
MissingLogs(hs) ==
    IF hs = <<>> THEN <<>>
    ELSE <<Log("error", "missing heading", Head(hs))>> \o MissingLogs(Tail(hs))

RECURSIVE ExtraLogs(_)
ExtraLogs(hs) ==
    IF hs = <<>> THEN <<>>
    ELSE <<Log("error", "extra heading", Head(hs))>> \o ExtraLogs(Tail(hs))

RECURSIVE HeadingLabels(_)
\* [vh.strip_attrs(n.strings[0]) for n in heading_nodes]
HeadingLabels(hn) ==
    IF hn = <<>> THEN <<>>
    ELSE <<strip_attrs(Head(hn).s[1])>> \o HeadingLabels(Tail(hn))

\* the check without the comparison of the order
heading_order_unordered(v, d) ==
    LET headings         == HEADINGS(v)
        heading_labels   == HeadingLabels(get_section_headings(d))
        missing_headings == SelectNotIn(headings, heading_labels)
        extra_headings   == SelectNotIn(heading_labels, headings)
        no_extra         == IF WARN_ON_EXTRA_HEADINGS(v)
                            THEN Len(extra_headings) = 0 ELSE FALSE
    IN  Returned(Len(missing_headings) = 0 /\ no_extra,
                 MissingLogs(missing_headings)
                 \o (IF WARN_ON_EXTRA_HEADINGS(v)
                     THEN ExtraLogs(extra_headings) ELSE <<>>))

\* section headings appear, and in the order expected
_validate_section_heading_order(v, d) ==
    LET headings         == HEADINGS(v)
        heading_nodes    == get_section_headings(d)
        heading_labels   == HeadingLabels(heading_nodes)
        missing_headings == SelectNotIn(headings, heading_labels)
        extra_headings   == SelectNotIn(heading_labels, headings)
        no_extra         == IF WARN_ON_EXTRA_HEADINGS(v)
                            THEN Len(extra_headings) = 0 ELSE FALSE
        headings_overlap == SelectIn(heading_labels, headings)
        bad_order        == Len(missing_headings) = 0
                            /\ headings_overlap # headings
        valid_order      == ~bad_order
    IN  Returned(Len(missing_headings) = 0 /\ valid_order /\ no_extra,
                 MissingLogs(missing_headings)
                 \o (IF WARN_ON_EXTRA_HEADINGS(v)
                     THEN ExtraLogs(extra_headings) ELSE <<>>)
                 \o (IF bad_order
                     THEN <<Log("error", "heading order", <<>>)>> ELSE <<>>))

\* the check without the count of the header rows
doc_headers_uncounted(v, d) ==
    LET has_hrs == _validate_hrs(d) IN
    IF Len(d) < 2 THEN Raised("IndexError", has_hrs.log)
    ELSE LET test_headers == HeaderRows(v, d[2].s)
             valid_order  == _validate_section_heading_order(v, d)
         IN  IF test_headers.exc # "none"
             THEN Raised(test_headers.exc, has_hrs.log \o test_headers.log)
             ELSE Returned(has_hrs.res /\ test_headers.res /\ valid_order.res,
                           has_hrs.log \o test_headers.log \o valid_order.log)

\* the document header section
_validate_doc_headers(v, d) ==
    LET has_hrs == _validate_hrs(d) IN
    IF Len(d) < 2 THEN Raised("IndexError", has_hrs.log)
    ELSE LET header_node  == d[2]
             test_headers == HeaderRows(v, header_node.s)
         IN  IF test_headers.exc # "none"
             THEN Raised(test_headers.exc, has_hrs.log \o test_headers.log)
             ELSE LET only_headers == Len(header_node.s)
                                      = Cardinality(DOMAIN DOC_HEADERS(v))
                      valid_order  == _validate_section_heading_order(v, d)
                  IN  Returned(has_hrs.res /\ test_headers.res
                               /\ only_headers /\ valid_order.res,
                               has_hrs.log \o test_headers.log
                               \o valid_order.log)

(***************************************************************************)
(* Links                                                                   *)
(***************************************************************************)
\* tokens that re's [\w,\s-] does not match
NonStem == {".", "/", ":", "#"}

\* ^[\w,\s-]+\.(htm|html) up to the end of x
MatchesToEnd(x) ==
    /\ Len(x) >= 3
    /\ x[Len(x)] \in {"htm", "html"}
    /\ x[Len(x) - 1] = "."
    /\ \A i \in 1..(Len(x) - 2) : x[i] \notin NonStem

\* re.match(r"^[\w,\s-]+\.(htm|html)$", dest): $ is the end, or a last newline
IsLocalPage(dest) ==
    \/ MatchesToEnd(dest)
    \/ /\ Len(dest) >= 1
       /\ dest[Len(dest)] = "NL"
       /\ MatchesToEnd(SubSeq(dest, 1, Len(dest) - 1))

\* os.path.splitext(dest)[0]: what precedes the last "."
splitext0(dest) ==
    IF \E i \in 1..Len(dest) : dest[i] = "."
    THEN LET k == CHOOSE i \in 1..Len(dest) :
                     dest[i] = "." /\ \A j \in (i + 1)..Len(dest) : dest[j] # "."
         IN  SubSeq(dest, 1, k - 1)
    ELSE dest

RECURSIVE TitleOf(_)
\* get_doc_header_title: the content of the header's title row, <<>> for None
TitleOf(lines) ==
    IF lines = <<>> THEN <<>>
    ELSE LET k == FirstColon(Head(lines)) IN
         IF k > 0 /\ SubSeq(Head(lines), 1, k - 1) = <<"title">>
         THEN <<SubSeq(Head(lines), k + 1, Len(Head(lines)))>>
         ELSE TitleOf(Tail(lines))

get_doc_header_title(dir, fn) == TitleOf(dir[fn])

\* the link check with an unanchored pattern: whatever ends in .htm(l)
one_link_unanchored(link_node, dir) ==
    LET dest      == link_node.d
        link_text == link_node.s[1]
    IN  IF Len(dest) >= 1 /\ dest[Len(dest)] \in {"htm", "html"}
        THEN LET expected_md_fn == splitext0(dest) \o <<".", "md">> IN
             IF expected_md_fn \notin DOMAIN dir
             THEN Returned(FALSE, <<Log("error", "no markdown file", dest)>>)
             ELSE IF get_doc_header_title(dir, expected_md_fn) # <<link_text>>
                  THEN Returned(FALSE, <<Log("error", "title mismatch", dest)>>)
                  ELSE Returned(TRUE, <<>>)
        ELSE Returned(TRUE, <<>>)

\* one link
_validate_one_link(link_node, dir) ==
    LET info      == CommonMark_get_link_info(link_node)
        dest      == info[1]
        link_text == info[2]
    IN  IF IsLocalPage(dest)
        THEN LET expected_md_fn == splitext0(dest) \o <<".", "md">> IN
             IF expected_md_fn \notin DOMAIN dir
             THEN Returned(FALSE, <<Log("error", "no markdown file", dest)>>)
             ELSE IF get_doc_header_title(dir, expected_md_fn) # <<link_text>>
                  THEN Returned(FALSE, <<Log("error", "title mismatch", dest)>>)
                  ELSE Returned(TRUE, <<>>)
        ELSE Returned(TRUE, <<>>)

RECURSIVE LinkLoop(_, _, _)
\* for link_node in links: res = ...; valid = valid and res
LinkLoop(links, dir, acc) ==
    IF links = <<>> THEN acc
    ELSE LET res == _validate_one_link(Head(links), dir) IN
         LinkLoop(Tail(links), dir,
                  [acc EXCEPT !.res  = acc.res /\ res.res,
                              !.log  = acc.log \o res.log,
                              !.seen = Append(acc.seen,
                                           [node |-> Head(links),
                                            res  |-> res.res])])

RECURSIVE LinkLoopBreak(_, _, _)
\* the loop leaving at the first link that fails
LinkLoopBreak(links, dir, acc) ==
    IF links = <<>> \/ ~acc.res THEN acc
    ELSE LET res == _validate_one_link(Head(links), dir) IN
         LinkLoopBreak(Tail(links), dir,
                  [acc EXCEPT !.res  = acc.res /\ res.res,
                              !.log  = acc.log \o res.log,
                              !.seen = Append(acc.seen,
                                           [node |-> Head(links),
                                            res  |-> res.res])])

validate_links_break(d, dir) ==
    LinkLoopBreak(find_links(d), dir, Returned(TRUE, <<>>))

\* all links in the document
_validate_links(d, dir) == LinkLoop(find_links(d), dir, Returned(TRUE, <<>>))

(***************************************************************************)
(* _run_tests of the validator classes, and validate                       *)
(***************************************************************************)
BaseChecks(acc, v, d, dir) ==
    Then(Then(Then(acc,
        "doc_headers",   _validate_doc_headers(v, d)),
        "heading_order", _validate_section_heading_order(v, d)),
        "links",         _validate_links(d, dir))

MarkdownValidator_run_tests(v, d, dir) ==
    BaseChecks(Returned(TRUE, <<>>), v, d, dir)

\* _validate_intro_section without the test of the intro paragraph
intro_section_unread(d) ==
    IF Len(d) < 4 THEN Raised("IndexError", <<>>)
    ELSE LET prereqs_block == get_block_titled(d, <<"Prerequisites">>)
         IN  Returned(prereqs_block # <<>>,
                 IF prereqs_block # <<>> THEN <<>>
                 ELSE <<Log("error", "no Prerequisites", <<>>)>>)

\* IndexPageValidator: a paragraph, then a blockquoted list of prerequisites
_validate_intro_section(d) ==
    IF Len(d) < 4 THEN Raised("IndexError", <<>>)
    ELSE LET intro_block   == d[4]
             intro_section == is_paragraph(intro_block)
             prereqs_block == get_block_titled(d, <<"Prerequisites">>)
             prereqs_tests == IF prereqs_block # <<>>
                              THEN has_number_children(prereqs_block[1],
                                                       None, 2, maxsize)
                              ELSE FALSE
         IN  Returned(intro_section /\ prereqs_tests,
                 (IF intro_section THEN <<>>
                  ELSE <<Log("error", "expected intro paragraph", <<>>)>>)
                 \o (IF prereqs_tests THEN <<>>
                     ELSE <<Log("error", "no Prerequisites", <<>>)>>))

IndexPageValidator_run_tests(v, d, dir) ==
    BaseChecks(Then(Returned(TRUE, <<>>),
                    "intro", _validate_intro_section(d)), v, d, dir)

\* TopicPageValidator
_validate_learning_objective(d) ==
    LET learn_node == get_block_titled(d, <<"Learning Objectives">>)
        node_tests == IF learn_node # <<>>
                      THEN has_number_children(learn_node[1], None, 2, maxsize)
                      ELSE FALSE
    IN  Returned(node_tests,
                 IF node_tests THEN <<>>
                 ELSE <<Log("error", "no Learning Objectives", <<>>)>>)

RECURSIVE SubHeadingLogs(_)
SubHeadingLogs(hn) ==
    IF hn = <<>> THEN <<>>
    ELSE <<Log("warning", "remove sub-heading", Head(hn).s[1])>>
         \o SubHeadingLogs(Tail(hn))

_validate_has_no_headings(d) ==
    LET heading_nodes == get_section_headings(d) IN
    IF Len(heading_nodes) = 0 THEN Returned(TRUE, <<>>)
    ELSE Returned(FALSE, <<Log("error", "sub-headings", <<>>)>>
                         \o SubHeadingLogs(heading_nodes))

TopicPageValidator_run_tests(v, d, dir) ==
    BaseChecks(Then(Then(Returned(TRUE, <<>>),
                    "no_headings", _validate_has_no_headings(d)),
                    "learning_objective", _validate_learning_objective(d)),
               v, d, dir)

\* LicensePageValidator: only the md5 digest of the text
expected_hash == "258aa6822fa77f7c49c37c3759017891"

md5(text) ==
    CASE text = "license text"          -> expected_hash
      [] text = "license text, edited"  -> "0b7d6e1c5a3f4e2d9c8b7a6f5e4d3c2b"
      [] OTHER                          -> "d41d8cd98f00b204e9800998ecf8427e"

\* LicensePageValidator._run_tests without the comparison of the digests
license_unchecked(md) ==
    Then(Returned(TRUE, <<>>), "md5", Returned(TRUE, <<>>))

LicensePageValidator_run_tests(md) ==
    LET o == IF md5(md) = expected_hash THEN Returned(TRUE, <<>>)
             ELSE Returned(FALSE, <<Log("error", "license modified", <<>>)>>)
    IN  Then(Returned(TRUE, <<>>), "md5", o)

_run_tests(v, d, md, dir) ==
    CASE v = "index"   -> IndexPageValidator_run_tests(v, d, dir)
      [] v = "topic"   -> TopicPageValidator_run_tests(v, d, dir)
      [] v = "license" -> LicensePageValidator_run_tests(md)
      [] OTHER         -> MarkdownValidator_run_tests(v, d, dir)

\* try: return self._run_tests()  except IndexError: log, return False
validate(v, d, md, dir) ==
    With(_run_tests(v, d, md, dir), LAMBDA o :
        IF o.exc = "IndexError"
        THEN [o EXCEPT !.res = FALSE, !.exc = "none",
                       !.log = Append(o.log,
                                   Log("error", "missing critical sections", <<>>))]
        ELSE o)

(***************************************************************************)
(* Documents of the runs                                                   *)
(***************************************************************************)
L_layout   == <<"layout", ":", "lesson">>
L_title    == <<"title", ":", "Lesson Title">>
L_subtitle == <<"subtitle", ":", "Sub">>
L_minutes  == <<"minutes", ":", "30">>
L_keywords == <<"keywords", ":", "some">>
L_nosep    == <<"just some text">>

PageMd  == <<"page", ".", "md">>
\* the directory of the samples: page.md, whose title is "Page"
SampleDir == [fn \in {PageMd} |-> <<L_layout, <<"title", ":", "Page">>>>]

\* a directory without other Markdown files
NoSiblings == [fn \in {} |-> <<>>]

GoodLink == Link(<<"Page">>, <<"page", ".", "html">>)
DeadLink == Link(<<"Gone">>, <<"gone", ".", "html">>)
WebLink  == Link(<<"Site">>, <<"http", ":", "/", "/", "site", "/", "page", ".", "html">>)

P_intro   == Para(<<<<"Introductory material">>>>, <<GoodLink>>)
P_dead    == Para(<<<<"See also">>>>, <<DeadLink>>)
P_text    == Para(<<<<"Some text">>>>, <<>>)
Box(title) == BlockQuote(<<Heading(title), P_text>>)
H_Topics  == Heading(<<"Topics">>)
H_Other   == Heading(<<"Other Resources">>)

Header(lines) == Para(lines, <<>>)

Fronts == {
    <<HR, Header(<<L_layout, L_title>>), HR>>,
    <<HR, Header(<<L_layout, L_title, L_subtitle>>), HR>>,
    <<HR, Header(<<L_layout, L_title, L_subtitle, L_minutes>>), HR>>,
    <<HR, Header(<<L_layout, L_nosep>>), HR>>,
    <<HR, Header(<<L_layout, L_title, L_subtitle, L_subtitle>>), HR>>,
    <<P_text, Header(<<L_layout, L_title>>), P_text>>,
    <<HR, Header(<<L_layout, L_title>>)>>,
    <<HR>>,
    <<>> }

BodyBlocks == {P_intro, P_dead, Box(<<"Prerequisites">>),
               Box(<<"Learning Objectives">>), H_Topics, H_Other}

Docs == {f \o b : f \in Fronts, b \in SeqsUpTo(BodyBlocks, MaxBody)}

Texts == {"license text", "license text, edited", "page text"}

(***************************************************************************)
(* Editing a document: the "Topics" and "Other Resources" sections swapped *)
(***************************************************************************)
\* the first block from i on that is a heading, Len(d) + 1 when there is none
NextHeading(d, i) ==
    IF \E k \in i..Len(d) : is_heading(d[k])
    THEN CHOOSE k \in i..Len(d) :
            is_heading(d[k]) /\ \A j \in i..(k - 1) : ~is_heading(d[j])
    ELSE Len(d) + 1

\* "Topics" opens a section that "Other Resources" follows directly
CanSwap(d) ==
    \E i \in 1..Len(d) :
        /\ d[i] = H_Topics
        /\ \A k \in 1..(i - 1) : ~is_heading(d[k])
        /\ NextHeading(d, i + 1) <= Len(d)
        /\ d[NextHeading(d, i + 1)] = H_Other

SwapSections(d) ==
    LET i == NextHeading(d, 1)
        j == NextHeading(d, i + 1)
        e == NextHeading(d, j + 1)
    IN  SubSeq(d, 1, i - 1) \o SubSeq(d, j, e - 1) \o SubSeq(d, i, j - 1)
        \o SubSeq(d, e, Len(d))

(***************************************************************************)
(* Spec: validate() of every validator class                               *)
(***************************************************************************)
Init ==
    /\ doc \in Docs
    /\ validator \in Templates
    /\ markdown \in IF validator = "license" THEN Texts ELSE {"page text"}
    /\ markdown_dir \in IF validator = "license" THEN {SampleDir, NoSiblings}
                                                ELSE {SampleDir}
    /\ folder = <<>>
    /\ pc = "ready"
    /\ out = NoCall
    /\ prev = NoCall

Validate ==
    /\ pc \in {"ready", "edited"}
    /\ out' = Called("validate", validate(validator, doc, markdown, markdown_dir))
    /\ pc' = IF pc = "ready" THEN "done" ELSE "done2"
    /\ UNCHANGED <<doc, validator, markdown, markdown_dir, folder, prev>>

\* the author swaps the two sections of an index page and validates again
Swap ==
    /\ pc = "done"
    /\ validator = "index"
    /\ CanSwap(doc)
    /\ doc' = SwapSections(doc)
    /\ prev' = out
    /\ pc' = "edited"
    /\ UNCHANGED <<validator, markdown, markdown_dir, folder, out>>

\* a second call that adds its diagnostics to those of the first
revalidate_accumulating ==
    /\ pc = "done"
    /\ prev' = out
    /\ out' = With(validate(validator, doc, markdown, markdown_dir), LAMBDA o :
                  Called("validate", [o EXCEPT !.log = out.log \o o.log]))
    /\ pc' = "again"
    /\ UNCHANGED <<doc, validator, markdown, markdown_dir, folder>>

\* validate() is called a second time on the same validator
Revalidate ==
    /\ pc = "done"
    /\ prev' = out
    /\ out' = Called("validate", validate(validator, doc, markdown, markdown_dir))
    /\ pc' = "again"
    /\ UNCHANGED <<doc, validator, markdown, markdown_dir, folder>>

Next == Validate \/ Swap

Spec == Init /\ [][Next]_vars

Logged(o, msg, arg) ==
    \E i \in 1..Len(o.log) : o.log[i].msg = msg /\ o.log[i].arg = arg

CheckOf(o, name) == CHOOSE c \in Range(o.checks) : c.name = name
Ran(o, name)     == \E c \in Range(o.checks) : c.name = name
Passed(o, name)  == Ran(o, name) /\ CheckOf(o, name).res

(***************************************************************************)
(* Claims checked under Spec                                               *)
(***************************************************************************)
\* the checks a run of _run_tests is made of, in the order of the calls
ChecksOf(v) ==
    CASE v = "index"   -> <<"intro", "doc_headers", "heading_order", "links">>
      [] v = "topic"   -> <<"no_headings", "learning_objective",
                            "doc_headers", "heading_order", "links">>
      [] v = "license" -> <<"md5">>
      [] OTHER         -> <<"doc_headers", "heading_order", "links">>

CheckNames(o) == [i \in 1..Len(o.checks) |-> o.checks[i].name]

TooShort == Len(doc) < (IF validator = "index" THEN 4 ELSE 3)

\* C1: validate() of every validator class returns a boolean on every
\* document and never raises; a document too short for its header section
\* yields false and a reported error.
C1_ValidateNeverRaises ==
    out.call = "validate" =>
        /\ out.exc = "none"
        /\ (TooShort /\ validator # "license" =>
                ~out.res /\ \E i \in 1..Len(out.log) : out.log[i].sev = "error")

\* C5 as stated: after the swap the heading-order check returns false, the
\* intro, front-matter and link checks return true, and validate() is false.
C5_OnlyHeadingOrderFails ==
    (pc = "done2" /\ prev.res) =>
        /\ ~Passed(out, "heading_order")
        /\ Passed(out, "intro")
        /\ Passed(out, "doc_headers")
        /\ Passed(out, "links")
        /\ ~out.res

\* C5 amended: after the swap of the two sections of an index page that
\* passed every check, the heading-order check returns false and so does
\* the front-matter check, which includes it; the intro and the link check
\* still return true, and validate() returns false.
C5_SwapFailsOrderAndHeaders ==
    (pc = "done2" /\ prev.res) =>
        /\ CheckNames(out) = ChecksOf("index")
        /\ ~Passed(out, "heading_order")
        /\ ~Passed(out, "doc_headers")
        /\ Passed(out, "intro")
        /\ Passed(out, "links")
        /\ out.exc = "none" /\ ~out.res

C5_Witness ==
    /\ pc = "done2" /\ prev.res /\ ~out.res
    /\ out.seen # <<>>
    /\ HeadingLabels(get_section_headings(doc))
           = << <<"Other Resources">>, <<"Topics">> >>

\* C8: on a document long enough for every access to its blocks, one run
\* executes every check of the validator, whatever the others returned,
\* and returns the conjunction of their results.
C8_EveryCheckRuns ==
    (out.call = "validate" /\ ~TooShort) =>
        /\ CheckNames(out) = ChecksOf(validator)
        /\ \A i \in 1..Len(out.checks) : out.checks[i].exc = "none"
        /\ out.res = \A i \in 1..Len(out.checks) : out.checks[i].res

\* C12: the license validator runs none of the generic checks; its result
\* is true iff the digest of the text is the known-good digest, so an
\* edited license text fails, whatever the structure of the document and
\* whatever sibling files exist.
C12_LicenseOnlyDigest ==
    (out.call = "validate" /\ validator = "license") =>
        /\ CheckNames(out) = <<"md5">>
        /\ out.exc = "none"
        /\ out.res = (md5(markdown) = expected_hash)
        /\ out.res = (markdown = "license text")

C12_Witness ==
    /\ out.call = "validate" /\ validator = "license"
    /\ markdown = "license text, edited"
    /\ markdown_dir = NoSiblings
    /\ doc = <<HR, Header(<<L_layout, L_nosep>>), HR, H_Other, P_dead>>
    /\ ~out.res

(***************************************************************************)
(* SpecIntro: _validate_intro_section() called on its own                  *)
(***************************************************************************)
MaxIntro == 3      \* blocks after the header section of the intro runs

B_prereq1    == BlockQuote(<<HeadingL(<<"Prerequisites">>, "1"), P_text>>)
B_prereqOnly == BlockQuote(<<Heading(<<"Prerequisites">>)>>)
B_prereqLate == BlockQuote(<<P_text, Heading(<<"Prerequisites">>)>>)

IntroBlocks == {P_text, H_Topics, Heading(<<"Prerequisites">>),
                Box(<<"Prerequisites">>),
                Box(<<"Prerequisites", "{.challenge}">>),
                Box(<<"Learning Objectives">>),
                B_prereq1, B_prereqOnly, B_prereqLate}

InitIntro ==
    /\ doc \in {<<HR, Header(<<L_layout, L_title>>), HR>> \o b :
                    b \in SeqsUpTo(IntroBlocks, MaxIntro)}
    /\ validator = "index"
    /\ markdown = "page text"
    /\ markdown_dir = SampleDir
    /\ folder = <<>>
    /\ pc = "ready"
    /\ out = NoCall
    /\ prev = NoCall

CheckIntro ==
    /\ pc = "ready"
    /\ out' = Called("intro", _validate_intro_section(doc))
    /\ pc' = "done"
    /\ UNCHANGED <<doc, validator, markdown, markdown_dir, folder, prev>>

NextIntro == CheckIntro

SpecIntro == InitIntro /\ [][NextIntro]_vars

\* a blockquote among the top-level blocks whose first child is a heading
\* with the text `title` and that has at least two children
HasCallout(d, title) ==
    \E i \in 1..Len(d) :
        /\ d[i].t = "BlockQuote" /\ Len(d[i].c) >= 2
        /\ d[i].c[1].t = "Header"
        /\ strip_attrs(d[i].c[1].s[1]) = title

\* the same, the heading being of level 2
HasCallout2(d, title) ==
    \E i \in 1..Len(d) :
        /\ d[i].t = "BlockQuote" /\ Len(d[i].c) >= 2
        /\ d[i].c[1].t = "Header" /\ d[i].c[1].d = <<"2">>
        /\ strip_attrs(d[i].c[1].s[1]) = title

HeadingTemplates == {"index", "instructor"}
ReqA(v) == HEADINGS(v)[1]
ReqB(v) == HEADINGS(v)[2]
LabelC  == <<"Extra">>

HeadBlocks(v) == {Heading(ReqA(v)), Heading(ReqB(v)), Heading(LabelC),
                  Heading(ReqA(v) \o <<"{.challenge}">>),
                  P_text, Box(ReqB(v))}

InitHeadings ==
    /\ validator \in HeadingTemplates
    /\ doc \in SeqsUpTo(HeadBlocks(validator), MaxHeads)
    /\ markdown = "page text"
    /\ markdown_dir = SampleDir
    /\ folder = <<>>
    /\ pc = "ready"
    /\ out = NoCall
    /\ prev = NoCall

CheckHeadingOrder ==
    /\ pc = "ready"
    /\ out' = Called("heading_order",
                     _validate_section_heading_order(validator, doc))
    /\ pc' = "done"
    /\ UNCHANGED <<doc, validator, markdown, markdown_dir, folder, prev>>

NextHeadings == CheckHeadingOrder

SpecHeadings == InitHeadings /\ [][NextHeadings]_vars

\* the text of the top-level headings without "{.class}", in document order
TopLabels(d) ==
    LET idx == {i \in 1..Len(d) : d[i].t = "Header"}
        nth(k) == CHOOSE i \in idx : Cardinality({j \in idx : j < i}) = k - 1
    IN  [k \in 1..Cardinality(idx) |->
            LET t == d[nth(k)].s[1] IN
            IF t[Len(t)] = "{.challenge}" THEN SubSeq(t, 1, Len(t) - 1) ELSE t]

\* C2: with required headings [A, B] and warnOnExtraHeadings (the index
\* page), headings [A, B] pass; [B, A] fail; [A] fails and B is reported
\* missing; [A, B, C] fails and C is reported as an extra heading.
C2_HeadingOrderCases ==
    (out.call = "heading_order" /\ validator = "index") =>
        LET A == ReqA(validator)
            B == ReqB(validator)
            L == TopLabels(doc)
        IN  /\ (L = <<A, B>> => out.res)
            /\ (L = <<B, A>> => ~out.res)
            /\ (L = <<A>> => ~out.res /\ Logged(out, "missing heading", B))
            /\ (L = <<A, B, LabelC>> =>
                    ~out.res /\ Logged(out, "extra heading", LabelC))

C2_Witness ==
    /\ out.call = "heading_order" /\ validator = "index"
    /\ doc = <<Heading(ReqB("index")), P_text,
               Heading(ReqA("index") \o <<"{.challenge}">>)>>
    /\ ~out.res

\* C3: with warnOnExtraHeadings false (the instructor page) the check
\* passes iff no required heading is missing and the order is valid,
\* whether or not other headings are present.
C3_ExtraHeadingsIgnored ==
    (out.call = "heading_order" /\ validator = "instructor") =>
        (out.res <=>
            SelectIn(TopLabels(doc), HEADINGS(validator)) = HEADINGS(validator))

(***************************************************************************)
(* SpecHeaders: _validate_doc_headers() called on its own                  *)
(***************************************************************************)
HeaderTemplates == {"index", "motivation", "reference", "instructor"}

HeaderLines == {L_layout, L_title, L_subtitle, L_keywords,
                <<"title", ":">>, L_nosep}

HeaderBodies == { <<>>,
                  <<H_Topics, P_text, H_Other>>,
                  <<Heading(<<"Glossary">>)>>,
                  <<Heading(<<"Legend">>), Heading(<<"Overall">>)>> }

InitHeaders ==
    /\ validator \in HeaderTemplates
    /\ \E b1 \in {HR, P_text}, b3 \in {HR, P_text},
          lines \in SeqsUpTo(HeaderLines, MaxLines), body \in HeaderBodies :
            doc = <<b1, Header(lines), b3>> \o body
    /\ markdown = "page text"
    /\ markdown_dir = SampleDir
    /\ folder = <<>>
    /\ pc = "ready"
    /\ out = NoCall
    /\ prev = NoCall

CheckDocHeaders ==
    /\ pc = "ready"
    /\ out' = Called("doc_headers", _validate_doc_headers(validator, doc))
    /\ pc' = "done"
    /\ UNCHANGED <<doc, validator, markdown, markdown_dir, folder, prev>>

NextHeaders == CheckDocHeaders

SpecHeaders == InitHeaders /\ [][NextHeaders]_vars

\* a row "label: content" of a required field, its content accepted
GoodRow(v, line) ==
    /\ Len(line) >= 3
    /\ line[2] = ":"
    /\ line[1] \in DOMAIN DOC_HEADERS(v)
    /\ IF DOC_HEADERS(v)[line[1]] = "is_numeric"
       THEN Len(line) = 3 /\ line[3] \in NumericTokens ELSE TRUE

\* a row "label: content" of a field the template does not know
UnknownRow(v, line) ==
    Len(line) >= 3 /\ line[2] = ":" /\ line[1] \notin DOMAIN DOC_HEADERS(v)

\* the rows are exactly the required fields, one row each
ExactFields(v, lines) ==
    /\ \A i \in 1..Len(lines) : GoodRow(v, lines[i])
    /\ {lines[i][1] : i \in 1..Len(lines)} = DOMAIN DOC_HEADERS(v)
    /\ Len(lines) = Cardinality(DOMAIN DOC_HEADERS(v))

Without(lines, i) == SubSeq(lines, 1, i - 1) \o SubSeq(lines, i + 1, Len(lines))

\* the three ways of the claim to spoil a well-formed header section
SpoiledHeader(v, d) ==
    \/ ExactFields(v, d[2].s) /\ ~(d[1].t = "HorizontalRule"
                                   /\ d[3].t = "HorizontalRule")
    \/ \E i \in 1..Len(d[2].s) :
          UnknownRow(v, d[2].s[i]) /\ ExactFields(v, Without(d[2].s, i))
    \/ /\ \A i \in 1..Len(d[2].s) : GoodRow(v, d[2].s[i])
       /\ Cardinality({d[2].s[i][1] : i \in 1..Len(d[2].s)}) = Len(d[2].s)
       /\ Len(d[2].s) = Cardinality(DOMAIN DOC_HEADERS(v)) - 1

WellFormedHeader(v, d) ==
    /\ ExactFields(v, d[2].s)
    /\ d[1].t = "HorizontalRule" /\ d[3].t = "HorizontalRule"

\* C4 as stated: the front-matter check is true on a well-formed header
\* section bracketed by rules, and false on a spoiled one.
C4_HeaderCheckByHeaderAlone ==
    out.call = "doc_headers" =>
        /\ (WellFormedHeader(validator, doc) => out.res)
        /\ (SpoiledHeader(validator, doc) => ~out.res)

\* C4 amended: on a well-formed header section bracketed by rules the
\* front-matter check returns what the heading-order check of the document
\* returns (it includes that check); it returns false when a bracketing
\* rule is replaced, an unrecognized field is added or a required field is
\* omitted.
C4_HeaderCheckWithHeadingOrder ==
    out.call = "doc_headers" =>
        /\ (WellFormedHeader(validator, doc) =>
               /\ out.exc = "none"
               /\ out.res = _validate_section_heading_order(validator, doc).res)
        /\ (SpoiledHeader(validator, doc) => out.exc = "none" /\ ~out.res)

C4_Witness ==
    /\ out.call = "doc_headers" /\ validator = "index"
    /\ WellFormedHeader(validator, doc)
    /\ TopLabels(doc) = HEADINGS(validator)
    /\ out.res

\* C18: when the front-matter check returns true, every required field
\* label appears in the header block and no other label does, also when a
\* label is repeated on several lines.
C18_TrueImpliesExactLabels ==
    (out.call = "doc_headers" /\ out.exc = "none" /\ out.res) =>
        {doc[2].s[i][1] : i \in 1..Len(doc[2].s)} = DOMAIN DOC_HEADERS(validator)

(***************************************************************************)
(* SpecLinks: _validate_links() called on its own                          *)
(***************************************************************************)
AbMd == <<"a", ",", "b", ".", "md">>

LinkDests == {
    <<"page", ".", "html">>,
    <<"page", ".", "htm">>,
    <<"a", ",", "b", ".", "html">>,
    <<"my", " ", "page", "-", "1", ".", "html">>,
    <<"page", ".", "v2", ".", "html">>,
    <<"page", ".", "html", "#", "top">>,
    <<"dir", "/", "page", ".", "html">>,
    <<"http", ":", "/", "/", "site", "/", "page", ".", "html">>,
    <<"notes", ".", "txt">> }

LinkTexts == {<<"Page">>, <<"Wrong Text">>}

Links == {Link(t, d) : t \in LinkTexts, d \in LinkDests}

\* a sibling file: absent, with the title "Page", or without a title row
SiblingHeaders == { <<L_layout, <<"title", ":", "Page">>>>, <<L_layout>> }

Dirs == UNION {[S -> SiblingHeaders] : S \in SUBSET {PageMd, AbMd}}

\* the first link in a top-level paragraph, the others inside a callout
LinkDoc(ls) ==
    <<Para(<<<<"text">>>>, IF ls = <<>> THEN <<>> ELSE <<Head(ls)>>),
      BlockQuote(<<Heading(<<"Box">>),
                   Para(<<<<"text">>>>,
                        IF ls = <<>> THEN <<>> ELSE Tail(ls))>>)>>

InitLinks ==
    /\ validator = "motivation"
    /\ \E ls \in SeqsUpTo(Links, MaxLinks) : doc = LinkDoc(ls)
    /\ markdown = "page text"
    /\ markdown_dir \in Dirs
    /\ folder = <<>>
    /\ pc = "ready"
    /\ out = NoCall
    /\ prev = NoCall

CheckLinks ==
    /\ pc = "ready"
    /\ out' = Called("links", _validate_links(doc, markdown_dir))
    /\ pc' = "done"
    /\ UNCHANGED <<doc, validator, markdown, markdown_dir, folder, prev>>

NextLinks == CheckLinks

SpecLinks == InitLinks /\ [][NextLinks]_vars

\* the links of a document of these runs, in document order
LinksOfDoc(d) == d[1].c \o d[2].c[2].c

\* a bare file name: word characters, spaces or hyphens, then .htm or .html
ClaimedLocal(dest) ==
    /\ Len(dest) >= 3
    /\ dest[Len(dest)] \in {"htm", "html"} /\ dest[Len(dest) - 1] = "."
    /\ \A i \in 1..(Len(dest) - 2) :
          dest[i] \notin {".", "/", ":", "#", ",", "NL"}

\* the same with commas and any whitespace, and one newline allowed last
PatternLocal(dest) ==
    LET x == IF dest # <<>> /\ dest[Len(dest)] = "NL"
             THEN SubSeq(dest, 1, Len(dest) - 1) ELSE dest
    IN  /\ Len(x) >= 3
        /\ x[Len(x)] \in {"htm", "html"} /\ x[Len(x) - 1] = "."
        /\ \A i \in 1..(Len(x) - 2) : x[i] \notin {".", "/", ":", "#"}

\* the sibling Markdown file of a local page reference
MdOf(dest) ==
    LET x == IF dest[Len(dest)] = "NL"
             THEN SubSeq(dest, 1, Len(dest) - 1) ELSE dest
    IN  SubSeq(x, 1, Len(x) - 2) \o <<".", "md">>

\* C6 as stated: local page references are the bare names made of word
\* characters, spaces and hyphens before .htm/.html; any other destination
\* passes, and a local reference without its sibling .md file fails.
C6_LocalIffWordSpaceHyphen ==
    out.call = "links" =>
        \A i \in 1..Len(out.seen) :
            LET l == out.seen[i].node IN
            /\ (~ClaimedLocal(l.d) => out.seen[i].res)
            /\ (ClaimedLocal(l.d) /\ MdOf(l.d) \notin DOMAIN markdown_dir
                    => ~out.seen[i].res /\ ~out.res)

\* C6 amended: a destination is a local page reference iff it is one or
\* more word characters, commas, whitespace characters or hyphens followed
\* by .htm or .html (one final newline allowed); any other destination
\* passes whatever files exist, and a local page reference fails when the
\* sibling .md file does not exist.
C6_LocalIffPattern ==
    out.call = "links" =>
        \A i \in 1..Len(out.seen) :
            LET l == out.seen[i].node IN
            /\ (~PatternLocal(l.d) => out.seen[i].res)
            /\ (PatternLocal(l.d) /\ MdOf(l.d) \notin DOMAIN markdown_dir
                    => /\ ~out.seen[i].res /\ ~out.res
                       /\ Logged(out, "no markdown file", l.d))

C6_Witness ==
    /\ out.call = "links" /\ Len(out.seen) = 2
    /\ out.seen[1].node.d = <<"http", ":", "/", "/", "site", "/", "page", ".", "html">>
    /\ out.seen[1].res
    /\ out.seen[2].node.d = <<"a", ",", "b", ".", "html">>
    /\ AbMd \notin DOMAIN markdown_dir
    /\ ~out.seen[2].res

\* the header of a sibling file has the title row "title: <text>"
HasTitle(lines, text) ==
    /\ \E i \in 1..Len(lines) : lines[i] = <<"title", ":">> \o text
    /\ \A i \in 1..Len(lines) : lines[i][1] = "title" => lines[i] = <<"title", ":">> \o text

\* C7: a local page reference whose sibling file exists passes iff the
\* link text equals the title of that file; one failing link fails the
\* link check of the document, and every link is examined, also after a
\* failure.
C7_LinkTextIsTitle ==
    out.call = "links" =>
        /\ [i \in 1..Len(out.seen) |-> out.seen[i].node] = LinksOfDoc(doc)
        /\ out.res = \A i \in 1..Len(out.seen) : out.seen[i].res
        /\ \A i \in 1..Len(out.seen) :
              LET l == out.seen[i].node IN
              (PatternLocal(l.d) /\ MdOf(l.d) \in DOMAIN markdown_dir) =>
                  (out.seen[i].res <=>
                      HasTitle(markdown_dir[MdOf(l.d)], l.s[1]))

C7_Witness ==
    /\ out.call = "links" /\ Len(out.seen) = 2
    /\ PageMd \in DOMAIN markdown_dir
    /\ out.seen[1].node = Link(<<"Wrong Text">>, <<"page", ".", "html">>)
    /\ ~out.seen[1].res
    /\ out.seen[2].node = Link(<<"Page">>, <<"page", ".", "html">>)
    /\ out.seen[2].res
    /\ ~out.res

(***************************************************************************)
(* The template dispatcher                                                 *)
(***************************************************************************)
Digits == {"0", "1", "2", "3", "4", "5", "6", "7", "8", "9"}

\* re.search(pattern, name) for the pattern of LESSON_TEMPLATES[t]
PatternMatches(t, name) ==
    CASE t = "index"      -> Len(name) >= 1 /\ name[1] = "index"
      [] t = "topic"      -> /\ Len(name) >= 3
                             /\ name[1] \in Digits /\ name[2] \in Digits
                             /\ name[3] = "-"
      [] t = "motivation" -> Len(name) >= 1 /\ name[1] = "motivation"
      [] t = "reference"  -> Len(name) >= 1 /\ name[1] = "reference"
      [] t = "instructor" -> Len(name) >= 1 /\ name[1] = "instructors"
      [] t = "license"    -> Len(name) >= 1 /\ name[1] = "LICENSE"
      [] t = "discussion" -> Len(name) >= 1 /\ name[1] = "discussion"

\* os.path.basename: what follows the last "/"
basename(path) ==
    IF \E i \in 1..Len(path) : path[i] = "/"
    THEN LET k == CHOOSE i \in 1..Len(path) :
                     path[i] = "/" /\ \A j \in (i + 1)..Len(path) : path[j] # "/"
         IN  SubSeq(path, k + 1, Len(path))
    ELSE path

\* the values identify_template may return: the first template, in the
\* order of the dictionary, whose pattern matches; "None" without a match
identify_template(filepath) ==
    LET M == {t \in Templates : PatternMatches(t, basename(filepath))}
    IN  IF M = {} THEN {"None"} ELSE M

DirPath == <<"lesson", "/">>

\* the header lines a sibling file shows to get_doc_header_title
HeaderOf(d) == IF Len(d) >= 2 THEN d[2].s ELSE <<>>

\* the directory as the link check sees it
DirOf(entries) ==
    [fn \in {entries[i].name : i \in 1..Len(entries)} |->
        HeaderOf((CHOOSE e \in Range(entries) : e.name = fn).doc)]

\* validate_single with the template argument ignored
validate_single_auto(entry, template, ident, entries) ==
    IF ident = "None"
    THEN [Returned(FALSE, <<Log("error", "could not identify template",
                                entry.name)>>)
            EXCEPT !.seen = <<[file |-> entry.name, template |-> "None",
                               res |-> FALSE, exc |-> "none"]>>]
    ELSE With(validate(ident, entry.doc, entry.md, DirOf(entries)), LAMBDA o :
             [o EXCEPT !.log = <<Log("info", "beginning validation", entry.name)>>
                               \o o.log
                               \o (IF o.exc # "none" THEN <<>>
                                   ELSE IF o.res
                                   THEN <<Log("info", "passed", entry.name)>>
                                   ELSE <<Log("info", "failed", entry.name)>>),
                        !.seen = <<[file |-> entry.name, template |-> ident,
                                    res |-> o.res, exc |-> o.exc]>>])

\* validate_single(filepath, template) with the template identified as `ident`
validate_single(entry, template, ident, entries) ==
    LET t == IF template # "None" THEN template ELSE ident IN
    IF t = "None"
    THEN [Returned(FALSE, <<Log("error", "could not identify template",
                                entry.name)>>)
            EXCEPT !.seen = <<[file |-> entry.name, template |-> "None",
                               res |-> FALSE, exc |-> "none"]>>]
    ELSE With(validate(t, entry.doc, entry.md, DirOf(entries)), LAMBDA o :
             [o EXCEPT !.log = <<Log("info", "beginning validation", entry.name)>>
                               \o o.log
                               \o (IF o.exc # "none" THEN <<>>
                                   ELSE IF o.res
                                   THEN <<Log("info", "passed", entry.name)>>
                                   ELSE <<Log("info", "failed", entry.name)>>),
                        !.seen = <<[file |-> entry.name, template |-> t,
                                    res |-> o.res, exc |-> o.exc]>>])

\* glob.glob(os.path.join(path, "*.md")), in the order of the listing
RECURSIVE glob_md(_)
glob_md(entries) ==
    IF entries = <<>> THEN <<>>
    ELSE (IF Len(Head(entries).name) >= 2
             /\ SubSeq(Head(entries).name, Len(Head(entries).name) - 1,
                       Len(Head(entries).name)) = <<".", "md">>
          THEN <<Head(entries)>> ELSE <<>>)
         \o glob_md(Tail(entries))

\* the template identify_template returns for the file (no name matches
\* two patterns, so the order of the dictionary does not show)
Ident(entry) == CHOOSE t \in identify_template(DirPath \o entry.name) : TRUE

RECURSIVE FolderLoop(_, _, _, _)
\* for fn in filename_list: res = validate_single(...); all_valid = ... and res
FolderLoop(list, template, entries, acc) ==
    IF list = <<>> \/ acc.exc # "none" THEN acc
    ELSE With(validate_single(Head(list), template, Ident(Head(list)),
                              entries), LAMBDA o :
             FolderLoop(Tail(list), template, entries,
                        [acc EXCEPT !.res  = acc.res /\ o.res,
                                    !.exc  = o.exc,
                                    !.log  = acc.log \o o.log,
                                    !.checks = acc.checks \o o.checks,
                                    !.seen = acc.seen \o o.seen]))

validate_folder(entries, template) ==
    LET filename_list == glob_md(entries) IN
    IF filename_list = <<>>
    THEN Returned(FALSE, <<Log("error", "no Markdown files", <<>>)>>)
    ELSE FolderLoop(filename_list, template, entries, Returned(TRUE, <<>>))

(***************************************************************************)
(* SpecDispatch: validate_single and validate_folder on a directory        *)
(***************************************************************************)
D_index == <<HR, Header(<<L_layout, L_title>>), HR, P_text,
             Box(<<"Prerequisites">>), H_Topics, H_Other>>
D_plain == <<HR, Header(<<L_layout, L_title>>), HR, P_text>>
D_nosep == <<HR, Header(<<L_layout, L_nosep>>), HR, P_text>>

FileContents == { [doc |-> D_index, md |-> "page text"],
                  [doc |-> D_plain, md |-> "page text"],
                  [doc |-> D_nosep, md |-> "page text"],
                  [doc |-> <<P_text>>, md |-> "license text"] }

FileNames == { <<"index", ".", "md">>,
               <<"0", "1", "-", "one", ".", "md">>,
               <<"LICENSE", ".", "md">>,
               <<"README", ".", "md">>,
               <<"index", ".", "txt">> }

Entries == {[name |-> n, doc |-> c.doc, md |-> c.md] :
                n \in FileNames, c \in FileContents}

\* listings: no two files of a directory have the same name
Listings == {l \in SeqsUpTo(Entries, MaxFiles) :
                \A i, j \in 1..Len(l) : i # j => l[i].name # l[j].name}

TemplateArgs == {"None", "index", "motivation", "license"}

InitDispatch ==
    /\ validator \in TemplateArgs
    /\ folder \in Listings
    /\ doc = <<>>
    /\ markdown = "page text"
    /\ markdown_dir = DirOf(folder)
    /\ pc = "ready"
    /\ out = NoCall
    /\ prev = NoCall

ValidateSingle ==
    /\ pc = "ready"
    /\ \E i \in 1..Len(folder) :
       \E ident \in identify_template(DirPath \o folder[i].name) :
          /\ out' = CalledWith("validate_single", DirPath \o folder[i].name,
                        validate_single(folder[i], validator, ident, folder))
          /\ doc' = folder[i].doc
          /\ markdown' = folder[i].md
    /\ pc' = "done"
    /\ UNCHANGED <<validator, markdown_dir, folder, prev>>

ValidateFolder ==
    /\ pc = "ready"
    /\ out' = CalledWith("validate_folder", DirPath,
                         validate_folder(folder, validator))
    /\ pc' = "done"
    /\ UNCHANGED <<doc, validator, markdown, markdown_dir, folder, prev>>

NextDispatch == ValidateSingle \/ ValidateFolder

SpecDispatch == InitDispatch /\ [][NextDispatch]_vars

\* the template whose pattern the head of a file name matches, if any
TemplateByName(name) ==
    IF Len(name) >= 3 /\ name[1] \in Digits /\ name[2] \in Digits
       /\ name[3] = "-" THEN "topic"
    ELSE CASE name[1] = "index"       -> "index"
           [] name[1] = "motivation"  -> "motivation"
           [] name[1] = "reference"   -> "reference"
           [] name[1] = "instructors" -> "instructor"
           [] name[1] = "LICENSE"     -> "license"
           [] name[1] = "discussion"  -> "discussion"
           [] OTHER                   -> "None"

FileName(path) == SubSeq(path, Len(DirPath) + 1, Len(path))

\* C9: without a template and without a matching pattern validate_single
\* returns false, reports that the template was not identified and runs no
\* validator; a template given explicitly is the one used, whatever the
\* file name; otherwise the validator of the matching pattern is run.
C9_TemplateSelection ==
    out.call = "validate_single" =>
        LET byName == TemplateByName(FileName(out.arg)) IN
        /\ (validator = "None" /\ byName = "None" =>
               /\ ~out.res /\ out.exc = "none" /\ out.checks = <<>>
               /\ Logged(out, "could not identify template", FileName(out.arg)))
        /\ (validator # "None" =>
               /\ out.seen[1].template = validator
               /\ CheckNames(out) = SubSeq(ChecksOf(validator), 1,
                                           Len(out.checks))
               /\ out.checks # <<>>)
        /\ (validator = "None" /\ byName # "None" =>
               /\ out.seen[1].template = byName
               /\ CheckNames(out) = SubSeq(ChecksOf(byName), 1,
                                           Len(out.checks))
               /\ out.checks # <<>>)

C9_Witness ==
    /\ out.call = "validate_single"
    /\ FileName(out.arg) = <<"README", ".", "md">>
    /\ validator = "None"
    /\ out.checks = <<>> /\ ~out.res

\* C10: validate_folder validates every *.md file of a directory that has
\* some, also after a file has failed, and returns the conjunction of the
\* results of the files.
C10_FolderValidatesEveryFile ==
    (out.call = "validate_folder" /\ glob_md(folder) # <<>>) =>
        /\ out.exc = "none"
        /\ [i \in 1..Len(out.seen) |-> out.seen[i].file]
               = [i \in 1..Len(glob_md(folder)) |-> glob_md(folder)[i].name]
        /\ out.res = \A i \in 1..Len(out.seen) : out.seen[i].res

(***************************************************************************)
(* SpecMain: main() on the paths of the command line                       *)
(***************************************************************************)
MaxPaths == 2      \* paths given on the command line

\* os.path.isdir(e): the one directory of the runs
isdir(e) == e = DirPath

\* os.path.isfile(e): a file of the directory
isfile(e, entries) ==
    \E i \in 1..Len(entries) : DirPath \o entries[i].name = e

EntryAt(e, entries) ==
    CHOOSE x \in Range(entries) : DirPath \o x.name = e

\* the body of the loop of main for one path
main_one(e, template, entries) ==
    IF isdir(e) THEN validate_folder(entries, template)
    ELSE IF isfile(e, entries)
    THEN validate_single(EntryAt(e, entries), template,
                         Ident(EntryAt(e, entries)), entries)
    ELSE Returned(FALSE, <<Log("error", "does not exist", e)>>)

RECURSIVE MainLoop(_, _, _, _)
\* for e in parsed_args_obj.file_or_path: ...; all_valid = all_valid and res
MainLoop(paths, template, entries, acc) ==
    IF paths = <<>> \/ acc.exc # "none" THEN acc
    ELSE With(main_one(Head(paths), template, entries), LAMBDA o :
             MainLoop(Tail(paths), template, entries,
                      [acc EXCEPT !.res  = acc.res /\ o.res,
                                  !.exc  = o.exc,
                                  !.log  = acc.log \o o.log,
                                  !.checks = acc.checks \o o.checks,
                                  !.seen = Append(acc.seen,
                                              [path |-> Head(paths),
                                               res |-> o.res,
                                               exc |-> o.exc])]))

\* main(parsed_args_obj): the loop, then sys.exit(0) or sys.exit(1); an
\* exception that leaves the loop ends the interpreter with status 1
main(paths, template, entries) ==
    With(MainLoop(paths, template, entries, Returned(TRUE, <<>>)), LAMBDA o :
        IF o.exc # "none" THEN [o EXCEPT !.res = FALSE]
        ELSE IF o.res
        THEN [o EXCEPT !.exc = "SystemExit",
                       !.log = Append(o.log, Log("info", "all passed", <<>>))]
        ELSE [o EXCEPT !.exc = "SystemExit",
                       !.log = Append(o.log, Log("warning", "some errors", <<>>))])

\* the status the process ends with
exit_status(o) == IF o.exc = "SystemExit" /\ o.res THEN 0 ELSE 1

PathArgs == {DirPath} \cup {DirPath \o n : n \in FileNames}

InitMain == InitDispatch

Main ==
    /\ pc = "ready"
    /\ \E paths \in SeqsUpTo(PathArgs, MaxPaths) :
          out' = CalledWith("main", paths, main(paths, validator, folder))
    /\ pc' = "done"
    /\ UNCHANGED <<doc, validator, markdown, markdown_dir, folder, prev>>

NextMain == Main

SpecMain == InitMain /\ [][NextMain]_vars

\* C11: main processes every path it is given, a path that does not exist
\* counting as a failure, and the process exits with status 0 iff every
\* path validated to true, with a non-zero status otherwise.
C11_MainProcessesEveryPath ==
    out.call = "main" =>
        /\ [i \in 1..Len(out.seen) |-> out.seen[i].path] = out.arg
        /\ \A i \in 1..Len(out.seen) :
              /\ out.seen[i].exc = "none"
              /\ (~isdir(out.seen[i].path) /\ ~isfile(out.seen[i].path, folder)
                     => ~out.seen[i].res)
        /\ (exit_status(out) = 0) <=> \A i \in 1..Len(out.seen) : out.seen[i].res

(***************************************************************************)
(* Further claims checked under Spec                                       *)
(***************************************************************************)
\* C14: the topic page validator returns true only if the document has no
\* top-level heading, has a callout box titled "Learning Objectives" with
\* at least 2 children, and its header has exactly the fields layout,
\* title, subtitle and a numeric minutes.
C14_TopicPassesOnlyIf ==
    (out.call = "validate" /\ validator = "topic"
        /\ out.exc = "none" /\ out.res) =>
        /\ \A i \in 1..Len(doc) : doc[i].t # "Header"
        /\ HasCallout(doc, <<"Learning Objectives">>)
        /\ ExactFields("topic", doc[2].s)

(***************************************************************************)
(* PandocAstHelper on the JSON tree of pandoc (validation_helpers.py)      *)
(*                                                                         *)
(* A value of the tree is a dict {"t": tag, "c": content}, a list, a       *)
(* string (a sequence of characters) or an integer.  `v` is <<>> for a     *)
(* dict without the key "c" and <<content>> otherwise.                     *)
(***************************************************************************)
PDict(t, content) ==
    [k |-> "dict", t |-> t, v |-> <<content>>, items |-> <<>>, s |-> <<>>, n |-> 0]
PDictNoC(t) ==
    [k |-> "dict", t |-> t, v |-> <<>>, items |-> <<>>, s |-> <<>>, n |-> 0]
PList(items) ==
    [k |-> "list", t |-> "", v |-> <<>>, items |-> items, s |-> <<>>, n |-> 0]
PStr(chars) ==
    [k |-> "str", t |-> "", v |-> <<>>, items |-> <<>>, s |-> chars, n |-> 0]
PInt(n) ==
    [k |-> "int", t |-> "", v |-> <<>>, items |-> <<>>, s |-> <<>>, n |-> n]

\* the outcome of an expression: a value, or the exception it raises
Val(x)  == [exc |-> "none", val |-> x]
Exc(e)  == [exc |-> e, val |-> PInt(0)]

\* x['t']
Sub_t(x) == IF x.k = "dict" THEN Val(x.t) ELSE Exc("TypeError")

\* x['c']
Sub_c(x) ==
    IF x.k # "dict" THEN Exc("TypeError")
    ELSE IF x.v = <<>> THEN Exc("KeyError")
    ELSE Val(x.v[1])

\* len(y)
PyLen(y) ==
    CASE y.k = "list" -> Val(Len(y.items))
      [] y.k = "str"  -> Val(Len(y.s))
      [] y.k = "dict" -> Val(IF y.v = <<>> THEN 1 ELSE 2)
      [] OTHER        -> Exc("TypeError")

\* y[i], i counted from 0
PyItem(y, i) ==
    CASE y.k = "list" -> IF i < Len(y.items) THEN Val(y.items[i + 1])
                         ELSE Exc("IndexError")
      [] y.k = "str"  -> IF i < Len(y.s) THEN Val(PStr(<<y.s[i + 1]>>))
                         ELSE Exc("IndexError")
      [] y.k = "dict" -> Exc("KeyError")
      [] OTHER        -> Exc("TypeError")

\* PandocAstHelper.has_number_children(ast_node, exact, minc, maxc)
Pandoc_has_number_children(ast_node, exact, minc, maxc) ==
    LET lo == IF Truthy(exact) THEN exact[1] ELSE minc
        hi == IF Truthy(exact) THEN exact[1] ELSE maxc
        c  == Sub_c(ast_node)
    IN  IF c.exc # "none" THEN Raised(c.exc, <<>>)
        ELSE IF PyLen(c.val).exc # "none" THEN Raised(PyLen(c.val).exc, <<>>)
        ELSE Returned(lo <= PyLen(c.val).val /\ PyLen(c.val).val <= hi, <<>>)

\* PandocAstHelper.is_heading(ast_node), heading_level=None
Pandoc_is_heading(ast_node) ==
    IF Sub_t(ast_node).exc # "none" THEN Raised(Sub_t(ast_node).exc, <<>>)
    ELSE Returned(Sub_t(ast_node).val = "Header", <<>>)

\* PandocAstHelper.is_block(ast_node)
Pandoc_is_block(ast_node) ==
    IF Sub_t(ast_node).exc # "none" THEN Raised(Sub_t(ast_node).exc, <<>>)
    ELSE Returned(Sub_t(ast_node).val = "BlockQuote", <<>>)

\* PandocAstHelper.is_external(ast_node)
Pandoc_is_external(ast_node) ==
    IF Sub_t(ast_node).exc # "none" THEN Raised(Sub_t(ast_node).exc, <<>>)
    ELSE Returned(Sub_t(ast_node).val \in {"Link", "Image"}, <<>>)

\* PandocAstHelper.is_box(ast_node)
Pandoc_is_box(ast_node) ==
    With(Pandoc_has_number_children(ast_node, None, 2, maxsize), LAMBDA h :
        IF h.exc # "none" THEN Raised(h.exc, <<>>)
        ELSE IF ~h.res THEN Returned(FALSE, <<>>)
        ELSE With(Pandoc_is_heading(PyItem(Sub_c(ast_node).val, 0).val),
                  LAMBDA ih :
                 IF ih.exc # "none" THEN Raised(ih.exc, <<>>)
                 ELSE Returned(Pandoc_is_block(ast_node).res /\ ih.res, <<>>)))

RECURSIVE FlattenSeq(_)
FlattenSeq(ss) == IF ss = <<>> THEN <<>> ELSE Head(ss) \o FlattenSeq(Tail(ss))

RECURSIVE Stringify(_)
\* pandocfilters.stringify: the text of the Str and Space nodes below x
Stringify(x) ==
    CASE x.k = "dict" ->
            IF x.t = "Str" /\ x.v # <<>> /\ x.v[1].k = "str" THEN x.v[1].s
            ELSE IF x.t = "Space" THEN <<" ">>
            ELSE IF x.v = <<>> THEN <<>>
            ELSE Stringify(x.v[1])
      [] x.k = "list" ->
            FlattenSeq([i \in 1..Len(x.items) |-> Stringify(x.items[i])])
      [] OTHER -> <<>>

\* PandocAstHelper.get_children(ast_node): ast_node.get('c', [])
Pandoc_get_children(ast_node) ==
    IF ast_node.v = <<>> THEN PList(<<>>) ELSE ast_node.v[1]

\* PandocAstHelper.get_link_info(link_node): (link_text, dest_url)
Pandoc_get_link_info(link_node) ==
    With(Pandoc_is_external(link_node), LAMBDA e :
        IF e.exc # "none" THEN Raised(e.exc, <<>>)
        ELSE IF ~e.res THEN Raised("TypeError", <<>>)
        ELSE LET link_text == Stringify(link_node)
                 second    == PyItem(Pandoc_get_children(link_node), 1)
                 dest_url  == IF second.exc # "none" THEN second
                              ELSE PyItem(second.val, 0)
             IN  IF dest_url.exc # "none" THEN Raised(dest_url.exc, <<>>)
                 ELSE [Returned(TRUE, <<>>) EXCEPT
                          !.seen = <<PStr(link_text), dest_url.val>>])

(***************************************************************************)
(* SpecHelpers: the queries of PandocAstHelper on one node                 *)
(***************************************************************************)
MaxKids  == 3      \* children of a blockquote
MaxCount == 3      \* exact, minc and maxc of a child-count query

\* {"t": "Str", "c": "text"}: the content is the string itself
PN_str(w)  == PDict("Str", PStr(w))
W_text     == <<"t", "e", "x", "t">>
W_a        == <<"a">>
W_link     == <<"l", "i", "n", "k">>
PN_space   == PDictNoC("Space")
PN_para    == PDict("Para", PList(<<PN_str(W_text)>>))
PN_para3   == PDict("Para", PList(<<PN_str(W_a), PN_space, PN_str(W_text)>>))
PN_header  == PDict("Header",
                    PList(<<PInt(2),
                            PList(<<PStr(<<"id">>), PList(<<>>), PList(<<>>)>>),
                            PList(<<PN_str(W_text)>>)>>))
PN_rule    == PDict("HorizontalRule", PList(<<>>))
PN_ruleNoC == PDictNoC("HorizontalRule")
PN_quote(kids) == PDict("BlockQuote", PList(kids))
\* [text](dest): {"t": "Link", "c": [[inlines], [dest, title]]}
PN_link(tag, text, dest) ==
    PDict(tag, PList(<<PList(text), PList(<<PStr(dest), PStr(<<>>)>>)>>))

LinkInlines == { <<PN_str(W_a), PN_space, PN_str(W_link)>>,
                 <<PN_str(W_text)>> }

\* destinations, as the pieces of their text
LinkUrls == { <<"discussion", ".", "html">>,
              <<"http", ":", "/", "/", "site", "/", "page", ".", "html">> }

PandocNodes ==
    {PN_para, PN_para3, PN_header, PN_rule, PN_ruleNoC, PN_space,
     PN_str(W_text), PN_str(W_a)}
    \cup {PN_quote(k) : k \in SeqsUpTo({PN_header, PN_para, PN_rule}, MaxKids)}
    \cup {PN_link(tag, text, dest) :
            tag \in {"Link", "Image"}, text \in LinkInlines,
            dest \in LinkUrls}

Counts == 0..MaxCount

InitHelpers ==
    /\ doc \in {<<n>> : n \in PandocNodes}
    /\ validator = "None"
    /\ markdown = "page text"
    /\ markdown_dir = SampleDir
    /\ folder = <<>>
    /\ pc = "ready"
    /\ out = NoCall
    /\ prev = NoCall

IsBox ==
    /\ pc = "ready"
    /\ out' = Called("is_box", Pandoc_is_box(doc[1]))
    /\ pc' = "done"
    /\ UNCHANGED <<doc, validator, markdown, markdown_dir, folder, prev>>

HasNumberChildren ==
    /\ pc = "ready"
    /\ \E exact \in {None} \cup {<<n>> : n \in Counts},
          minc \in Counts, maxc \in Counts \cup {maxsize} :
          out' = CalledWith("has_number_children", <<exact, <<minc>>, <<maxc>>>>,
                     Pandoc_has_number_children(doc[1], exact, minc, maxc))
    /\ pc' = "done"
    /\ UNCHANGED <<doc, validator, markdown, markdown_dir, folder, prev>>

GetLinkInfo ==
    /\ pc = "ready"
    /\ out' = Called("get_link_info", Pandoc_get_link_info(doc[1]))
    /\ pc' = "done"
    /\ UNCHANGED <<doc, validator, markdown, markdown_dir, folder, prev>>

NextHelpers == IsBox \/ HasNumberChildren \/ GetLinkInfo

SpecHelpers == InitHelpers /\ [][NextHelpers]_vars

\* the children of a node: the items of its content when that is a list
KidsOf(x) == IF x.v # <<>> /\ x.v[1].k = "list" THEN x.v[1].items ELSE <<>>

\* C15: the callout-box test is true iff the node is a BlockQuote, its
\* first child is a Heading and it has at least 2 children; on any other
\* node (a top-level Heading, a node without children) it answers false
\* and does not fail.
C15_BoxIffQuoteHeadingTwo ==
    out.call = "is_box" =>
        /\ out.exc = "none"
        /\ out.res = (/\ doc[1].t = "BlockQuote"
                      /\ Len(KidsOf(doc[1])) >= 2
                      /\ KidsOf(doc[1])[1].t = "Header")

\* C16: get_link_info of a link node returns the pair (destination, link
\* text) in that order.
C16_LinkInfoDestFirst ==
    (out.call = "get_link_info" /\ doc[1].t \in {"Link", "Image"}) =>
        /\ out.exc = "none"
        /\ out.seen = <<KidsOf(doc[1])[2].items[1],
                        PStr(Stringify(KidsOf(doc[1])[1]))>>

\* C19: with exact = n the child-count query is true iff the node has
\* exactly n children, also for n = 0; without exact it is true iff
\* minc <= number of children <= maxc.
C19_ChildCountQueries ==
    (out.call = "has_number_children" /\ doc[1].v # <<>>
        /\ doc[1].v[1].k = "list") =>
        LET exact == out.arg[1]
            minc  == out.arg[2][1]
            maxc  == out.arg[3][1]
            nkids == Len(KidsOf(doc[1]))
        IN  /\ out.exc = "none"
            /\ (exact # None => out.res = (nkids = exact[1]))
            /\ (exact = None => out.res = (minc <= nkids /\ nkids <= maxc))

(***************************************************************************)
(* SpecTwice: validate() called twice on the same validator                *)
(***************************************************************************)
MaxTwice == 2      \* blocks after the header section of the repeated runs

InitTwice ==
    /\ doc \in {f \o b : f \in Fronts, b \in SeqsUpTo(BodyBlocks, MaxTwice)}
    /\ validator \in Templates
    /\ markdown \in IF validator = "license" THEN Texts ELSE {"page text"}
    /\ markdown_dir \in {SampleDir, NoSiblings}
    /\ folder = <<>>
    /\ pc = "ready"
    /\ out = NoCall
    /\ prev = NoCall

NextTwice == Validate \/ Revalidate

SpecTwice == InitTwice /\ [][NextTwice]_vars

====
